---- MODULE Spec2Model ----
(***************************************************************************)
(* DraftIt (src/main.go, second program text, lines 625-1427): the         *)
(* infinite-canvas sketch pad.  One tick of Game.Update is one step.       *)
(*                                                                         *)
(* Units.  Cursor positions are Go ints, the camera moves by integer       *)
(* deltas and the canvas origin is set from ints, so every coordinate is   *)
(* an integer and float32/float64 conversions, math.Floor and math.Ceil    *)
(* of a coordinate are exact.  Sizes (brushSize, eraserSize, stroke.Size,  *)
(* tolerance) are float64 values that the sliders set to                   *)
(* min + t*(max-min); they are kept in HUNDREDTHS (1000 is 10.0), which    *)
(* is exact for every integer cursor position because (max-min)*100/width  *)
(* is an integer for both sliders.  TLC integers are 32 bit, so distance   *)
(* comparisons are arranged to stay below 2^31.                            *)
(***************************************************************************)
EXTENDS Integers, Sequences, FiniteSets, TLC

\* ------------------------------------------------------------------ bounds
\* Committed strokes plus the in-progress stroke the environment draws.
MaxStrokes == 2
\* Points per stroke the environment samples.
MaxPoints == 3
\* Pan gestures of PanStep the camera may be away from its start, per axis.
MaxPanSteps == 2

\* Ticks of Game.Update in a behaviour (see TickBudget).
MaxTicks == 8

\* The repertoires of the user (see MainInputs).
Repertoires == {"grow", "erase", "ui", "resume", "export", "pandraw"}

\* The ticks a behaviour of a repertoire lasts.  The wide "grow" repertoire
\* is followed for two ticks less; the "resume" session for three ticks
\* more, the length of leaving a stroke, erasing and coming back to it.
TickBudget(e) ==
    IF e = "grow" THEN MaxTicks - 2
    ELSE IF e = "resume" THEN MaxTicks + 3
    ELSE MaxTicks

\* ------------------------------------------------------- program constants
modeDraw == "modeDraw"
modePixelErase == "modePixelErase"
modeStrokeErase == "modeStrokeErase"

initialCanvasSize == 2048
uiHeight == 110
\* ebiten.SetWindowSize(1280, 720): what ebiten.WindowSize() returns.
viewW == 1280
viewH == 720

White == "White"
Black == "Black"

\* ----------------------------------------------------------- number helpers
Abs(n) == IF n < 0 THEN -n ELSE n
Min2(a, b) == IF a < b THEN a ELSE b
Max2(a, b) == IF a > b THEN a ELSE b
\* Go integer division truncates toward zero.
Quo(a, b) == IF (a >= 0) = (b > 0) THEN Abs(a) \div Abs(b) ELSE -(Abs(a) \div Abs(b))
\* int(x), math.Ceil(x) and math.Ceil(x/2) of a non-negative size in hundredths.
IntOf(h) == h \div 100
CeilOf(h) == (h + 99) \div 100
CeilHalfOf(h) == (h + 199) \div 200

\* a/b <= c/d for naturals a, c and positive b, d, by continued fractions
\* (no product is formed).
RECURSIVE LeqFrac(_, _, _, _)
LeqFrac(a, b, c, d) ==
    LET qa == a \div b
        qc == c \div d
        ra == a % b
        rc == c % d
    IN  IF qa # qc THEN qa < qc
        ELSE IF ra = 0 THEN TRUE
        ELSE IF rc = 0 THEN FALSE
        ELSE LeqFrac(d, rc, b, ra)

\* ------------------------------------------------------ image.Rectangle
\* image.Rect: the canonical rectangle of two corners.
Rect(x0, y0, x1, y1) ==
    [MinX |-> Min2(x0, x1), MinY |-> Min2(y0, y1),
     MaxX |-> Max2(x0, x1), MaxY |-> Max2(y0, y1)]

ZR == [MinX |-> 0, MinY |-> 0, MaxX |-> 0, MaxY |-> 0]

Dx(r) == r.MaxX - r.MinX
Dy(r) == r.MaxY - r.MinY

\* Rectangle.Empty
RectEmpty(r) == r.MinX >= r.MaxX \/ r.MinY >= r.MaxY

\* Rectangle.Union of the Go standard library: an empty operand is ignored.
UnionAlways(r, s) ==
    [MinX |-> Min2(r.MinX, s.MinX), MinY |-> Min2(r.MinY, s.MinY),
     MaxX |-> Max2(r.MaxX, s.MaxX), MaxY |-> Max2(r.MaxY, s.MaxY)]

Union(r, s) ==
    IF RectEmpty(r) THEN s
    ELSE IF RectEmpty(s) THEN r
    ELSE UnionAlways(r, s)

\* Rectangle.Inset of the Go standard library.
Inset(r, n) ==
    LET xs == IF Dx(r) < 2 * n
              THEN <<Quo(r.MinX + r.MaxX, 2), Quo(r.MinX + r.MaxX, 2)>>
              ELSE <<r.MinX + n, r.MaxX - n>>
        ys == IF Dy(r) < 2 * n
              THEN <<Quo(r.MinY + r.MaxY, 2), Quo(r.MinY + r.MaxY, 2)>>
              ELSE <<r.MinY + n, r.MaxY - n>>
    IN  [MinX |-> xs[1], MinY |-> ys[1], MaxX |-> xs[2], MaxY |-> ys[2]]

rectContainsPoint(rect, p) ==
    p[1] >= rect.MinX /\ p[1] < rect.MaxX /\ p[2] >= rect.MinY /\ p[2] < rect.MaxY

\* button.contains: both edges inclusive.
buttonContains(rect, x, y) ==
    x >= rect.MinX /\ x <= rect.MaxX /\ y >= rect.MinY /\ y <= rect.MaxY

\* ---------------------------------------------------------------- stroke
\* &stroke{Points: []Vec2{p}, Size: size, Color: clr}
newStroke(p, size, clr) ==
    [Points |-> <<p>>, Size |-> size, Color |-> clr, Bounds |-> ZR, Erased |-> FALSE]

\* stroke.expandBounds, called after p was appended to s.Points.
expandBounds(s, p) ==
    IF Len(s.Points) = 1
    THEN [s EXCEPT !.Bounds = Rect(p[1], p[2], p[1], p[2])]
    ELSE [s EXCEPT !.Bounds = Union(s.Bounds, Rect(p[1], p[2], p[1], p[2]))]

\* A plausible slip in distanceWithin: the cross product is taken of p, not
\* of p - a.
distanceWithinFromOrigin(p, a, b, thr200) ==
    LET apx == p[1] - a[1]
        apy == p[2] - a[2]
        abx == b[1] - a[1]
        aby == b[2] - a[2]
        abLen2 == abx * abx + aby * aby
        dot == apx * abx + apy * aby
        lim == thr200 \div 200
        near(dx, dy) == Abs(dx) <= lim + 1 /\ Abs(dy) <= lim + 1
                        /\ (dx * dx + dy * dy) * 40000 <= thr200 * thr200
        cross == Abs(p[1] * aby - p[2] * abx)
        n == (cross \div thr200) * 200 + ((cross % thr200) * 200) \div thr200
        rem == ((cross % thr200) * 200) % thr200
    IN  IF abLen2 = 0 THEN near(apx, apy)
        ELSE IF dot < 0 THEN near(apx, apy)
        ELSE IF dot > abLen2 THEN near(p[1] - b[1], p[2] - b[2])
        ELSE IF n > 46000 THEN FALSE
             ELSE IF n * n > abLen2 THEN FALSE
             ELSE IF (n + 1) * (n + 1) <= abLen2 THEN TRUE
             ELSE IF rem = 0 THEN TRUE
             ELSE LeqFrac(rem, thr200, (abLen2 - n * n) * thr200, 2 * n * thr200 + rem)

\* distancePointToSegment(p, a, b) <= thr200/200, decided exactly.
\*   abLen2 = 0: hypot(ap);  t clamped to 0 or 1: the distance to a or b;
\*   otherwise the distance to the foot, cross^2/abLen2 squared.
distanceWithin(p, a, b, thr200) ==
    LET apx == p[1] - a[1]
        apy == p[2] - a[2]
        abx == b[1] - a[1]
        aby == b[2] - a[2]
        abLen2 == abx * abx + aby * aby
        dot == apx * abx + apy * aby
        lim == thr200 \div 200
        near(dx, dy) == Abs(dx) <= lim + 1 /\ Abs(dy) <= lim + 1
                        /\ (dx * dx + dy * dy) * 40000 <= thr200 * thr200
        cross == Abs(apx * aby - apy * abx)
        n == (cross \div thr200) * 200 + ((cross % thr200) * 200) \div thr200
        rem == ((cross % thr200) * 200) % thr200
    IN  IF abLen2 = 0 THEN near(apx, apy)
        ELSE IF dot < 0 THEN near(apx, apy)
        ELSE IF dot > abLen2 THEN near(p[1] - b[1], p[2] - b[2])
        ELSE \* (200*cross/thr200)^2 <= abLen2, with 200*cross/thr200 = n + rem/thr200
             IF n > 46000 THEN FALSE
             ELSE IF n * n > abLen2 THEN FALSE
             ELSE IF (n + 1) * (n + 1) <= abLen2 THEN TRUE
             ELSE IF rem = 0 THEN TRUE
             ELSE LeqFrac(rem, thr200, (abLen2 - n * n) * thr200, 2 * n * thr200 + rem)

\* The bounding-box pre-reject of stroke.hit.
hitInflated(s, tolerance) == Inset(s.Bounds, -IntOf(tolerance) - IntOf(s.Size))

\* A plausible slip in hitSegments: a stroke of one point is tested as the
\* segment from the point to itself.
hitSegmentsWithTap(s, pos, tolerance) ==
    \/ /\ Len(s.Points) = 1
       /\ distanceWithin(pos, s.Points[1], s.Points[1], 2 * tolerance + s.Size)
    \/ \E i \in 1..(Len(s.Points) - 1) :
          distanceWithin(pos, s.Points[i], s.Points[i + 1], 2 * tolerance + s.Size)

\* The segment scan of stroke.hit: some consecutive pair is within
\* tolerance + Size/2.
hitSegments(s, pos, tolerance) ==
    \E i \in 1..(Len(s.Points) - 1) :
        distanceWithin(pos, s.Points[i], s.Points[i + 1], 2 * tolerance + s.Size)

\* A plausible slip in hit: the Erased test is left out.
hitIgnoringErased(s, pos, tolerance) ==
    IF ~rectContainsPoint(hitInflated(s, tolerance), pos) THEN FALSE
    ELSE hitSegments(s, pos, tolerance)

\* stroke.hit
hit(s, pos, tolerance) ==
    IF s.Erased THEN FALSE
    ELSE IF ~rectContainsPoint(hitInflated(s, tolerance), pos) THEN FALSE
    ELSE hitSegments(s, pos, tolerance)

\* ------------------------------------------------------------------ state
VARIABLES
    canvas,        \* g.canvas: [w, h, pix]; pix is what was painted since the last
                   \* Fill, oldest first, in canvas-local coordinates
    canvasOrigin,  \* g.canvasOrigin
    strokes,       \* g.strokes
    current,       \* g.current: <<>> is nil, <<s>> the in-progress stroke
    currentMode,   \* g.currentMode
    mode,          \* g.mode
    brushSize,     \* g.brushSize, hundredths
    eraserSize,    \* g.eraserSize, hundredths
    sliderActive,  \* g.sliders[i].active
    confirm,       \* g.confirm.visible
    save,          \* g.save.visible
    lastMouseBtn,  \* g.lastMouseBtn
    camera,        \* g.camera
    panning,       \* g.panning
    panLast,       \* g.panLast
    last,          \* what the latest tick did (history, not program state)
    env,           \* the user's repertoire (environment, not program state)
    ticks          \* ticks so far (environment, not program state)

vars == <<canvas, canvasOrigin, strokes, current, currentMode, mode, brushSize,
          eraserSize, sliderActive, confirm, save, lastMouseBtn, camera, panning,
          panLast, last, env, ticks>>

\* g.sliders of setupUI; per is (max-min)/width in hundredths per pixel.
sliders ==
    << [x |-> 700, y |-> 40, width |-> 200, min |-> 2, max |-> 60],
       [x |-> 950, y |-> 40, width |-> 200, min |-> 4, max |-> 80] >>

\* g.buttons of setupUI, in order.
buttons ==
    << [rect |-> Rect(20, 20, 120, 60), label |-> "Brush"],
       [rect |-> Rect(140, 20, 260, 60), label |-> "Pixel Eraser"],
       [rect |-> Rect(260, 20, 380, 60), label |-> "Stroke Eraser"],
       [rect |-> Rect(400, 20, 520, 60), label |-> "Save"],
       [rect |-> Rect(540, 20, 660, 60), label |-> "Clear"] >>

\* The record of a tick that did nothing worth recording.
NoLast ==
    [op |-> "none", p |-> <<0, 0>>, radius |-> 0, ensured |-> FALSE,
     expanded |-> FALSE, rebuilds |-> 0, pixAfterRebuild |-> <<>>,
     curAtRebuild |-> <<>>, curModeAtRebuild |-> modeDraw,
     cursor |-> <<0, 0>>, marked |-> 0, returned |-> FALSE, encoded |-> <<>>]

\* NewGame
Init ==
    /\ canvas = [w |-> initialCanvasSize, h |-> initialCanvasSize, pix |-> <<>>]
    /\ canvasOrigin = <<-(initialCanvasSize \div 2), -(initialCanvasSize \div 2)>>
    /\ strokes = <<>>
    /\ current = <<>>
    /\ currentMode = modeDraw
    /\ mode = modeDraw
    /\ brushSize = 1000
    /\ eraserSize = 2000
    /\ sliderActive = <<FALSE, FALSE>>
    /\ confirm = FALSE
    /\ save = FALSE
    /\ lastMouseBtn = FALSE
    /\ camera = <<0, 0>>
    /\ panning = FALSE
    /\ panLast = <<0, 0>>
    /\ last = NoLast
    /\ env \in Repertoires
    /\ ticks = 0

\* ------------------------------------------------------------- coordinates
\* Game.canvasRect, of an origin and an image.
canvasRectOf(origin, img) ==
    Rect(origin[1], origin[2], origin[1] + img.w, origin[2] + img.h)

canvasRect == canvasRectOf(canvasOrigin, canvas)

\* Game.worldFromScreen
worldFromScreen(mx, my) == <<mx + camera[1], my + camera[2]>>

\* Game.worldToCanvas, against the origin in force when it is called.
worldToCanvas(origin, p) == <<p[1] - origin[1], p[2] - origin[2]>>

\* A plausible slip in drawOffset: the canvas is composited at -camera, the
\* origin left out.
drawOffsetNoOrigin == <<-camera[1], -camera[2]>>

\* op.GeoM.Translate of Game.Draw: where the canvas image is composited on
\* the screen.
drawOffset == <<-camera[1] + canvasOrigin[1], -camera[2] + canvasOrigin[2]>>

\* ------------------------------------------------------------------ raster
\* vector.StrokeLine(g.canvas, ca, cb, size, clr) in Game.drawSegment.
drawSegment(origin, a, b, size, clr) ==
    [kind |-> "line", a |-> worldToCanvas(origin, a), b |-> worldToCanvas(origin, b),
     size |-> size, clr |-> clr]

\* vector.DrawFilledCircle(g.canvas, cp, size/2, clr): a disk of diameter size.
drawFilledCircle(canvasPoint, size, clr) ==
    [kind |-> "disk", a |-> canvasPoint, b |-> canvasPoint, size |-> size, clr |-> clr]

\* render of rebuildCanvas: the segments of one stroke, nothing for one point.
render(origin, s) ==
    [i \in 1..(Len(s.Points) - 1) |->
        drawSegment(origin, s.Points[i], s.Points[i + 1], s.Size, s.Color)]

\* A plausible slip in renderAll: the Erased test is left out.
RECURSIVE renderAllWithErased(_, _)
renderAllWithErased(origin, ss) ==
    IF ss = <<>> THEN <<>>
    ELSE render(origin, Head(ss)) \o renderAllWithErased(origin, Tail(ss))

\* The loop over g.strokes of rebuildCanvas: erased strokes are skipped.
RECURSIVE renderAll(_, _)
renderAll(origin, ss) ==
    IF ss = <<>> THEN <<>>
    ELSE (IF Head(ss).Erased THEN <<>> ELSE render(origin, Head(ss)))
         \o renderAll(origin, Tail(ss))

\* Game.rebuildCanvas after its Fill: what the replay paints, the committed
\* strokes and then the in-progress stroke of the active mode.
rebuildCanvas(origin, ss, cur, curMode, md) ==
    renderAll(origin, ss)
    \o (IF cur # <<>> /\ curMode = md THEN render(origin, cur[1]) ELSE <<>>)

\* A plausible slip in Fill: the image is not cleared.
FillNothing(img) == img

\* g.canvas.Fill(color.Black): nothing painted is left.
Fill(img) == [img EXCEPT !.pix = <<>>]

\* Game.rebuildCanvas on the image img: Fill, then the replay.
rebuildCanvasOn(img, origin, ss, cur, curMode, md) ==
    [Fill(img) EXCEPT !.pix = @ \o rebuildCanvas(origin, ss, cur, curMode, md)]

\* A plausible slip in neededRect: the fixed margin of 8 is left out.
neededRectNoMargin(p, radius) ==
    LET margin == CeilOf(radius)
    IN  [MinX |-> p[1] - margin, MinY |-> p[2] - margin,
         MaxX |-> p[1] + margin, MaxY |-> p[2] + margin]

\* ensurePointVisible, first part: the rectangle the point needs, the point
\* grown by ceil(radius) + 8 on every side.
neededRect(p, radius) ==
    LET margin == CeilOf(radius) + 8
    IN  [MinX |-> p[1] - margin, MinY |-> p[2] - margin,
         MaxX |-> p[1] + margin, MaxY |-> p[2] + margin]

\* A plausible slip in grownRect: a side that grows toward smaller
\* coordinates moves the origin without widening the image.
grownRectShifted(rect, needed) ==
    LET extraMinX == IF needed.MinX < rect.MinX THEN rect.MinX - needed.MinX + 128 ELSE 0
        extraMaxX == IF needed.MaxX > rect.MaxX THEN needed.MaxX - rect.MaxX + 128 ELSE 0
        extraMinY == IF needed.MinY < rect.MinY THEN rect.MinY - needed.MinY + 128 ELSE 0
        extraMaxY == IF needed.MaxY > rect.MaxY THEN needed.MaxY - rect.MaxY + 128 ELSE 0
    IN  [origin |-> <<rect.MinX - extraMinX, rect.MinY - extraMinY>>,
         w |-> Dx(rect) + extraMaxX,
         h |-> Dy(rect) + extraMaxY,
         expanded |-> extraMinX + extraMaxX + extraMinY + extraMaxY > 0]

\* A plausible slip in grownRect: the growth quantum of 128 is left out.
grownRectNoQuantum(rect, needed) ==
    LET extraMinX == IF needed.MinX < rect.MinX THEN rect.MinX - needed.MinX ELSE 0
        extraMaxX == IF needed.MaxX > rect.MaxX THEN needed.MaxX - rect.MaxX ELSE 0
        extraMinY == IF needed.MinY < rect.MinY THEN rect.MinY - needed.MinY ELSE 0
        extraMaxY == IF needed.MaxY > rect.MaxY THEN needed.MaxY - rect.MaxY ELSE 0
    IN  [origin |-> <<rect.MinX - extraMinX, rect.MinY - extraMinY>>,
         w |-> Dx(rect) + extraMinX + extraMaxX,
         h |-> Dy(rect) + extraMinY + extraMaxY,
         expanded |-> extraMinX + extraMaxX + extraMinY + extraMaxY > 0]

\* ensurePointVisible, second part: newOriginX/Y, newW/H and expanded after
\* the four side tests.  A side that is short moves out by what is missing
\* plus 128 (so each extra is positive exactly when its test fired).
grownRect(rect, needed) ==
    LET extraMinX == IF needed.MinX < rect.MinX THEN rect.MinX - needed.MinX + 128 ELSE 0
        extraMaxX == IF needed.MaxX > rect.MaxX THEN needed.MaxX - rect.MaxX + 128 ELSE 0
        extraMinY == IF needed.MinY < rect.MinY THEN rect.MinY - needed.MinY + 128 ELSE 0
        extraMaxY == IF needed.MaxY > rect.MaxY THEN needed.MaxY - rect.MaxY + 128 ELSE 0
    IN  [origin |-> <<rect.MinX - extraMinX, rect.MinY - extraMinY>>,
         w |-> Dx(rect) + extraMinX + extraMaxX,
         h |-> Dy(rect) + extraMinY + extraMaxY,
         expanded |-> extraMinX + extraMaxX + extraMinY + extraMaxY > 0]

\* Game.ensurePointVisible(p, radius): the canvas and origin it leaves; a new
\* image is made and rebuilt when a side moved.
ensurePointVisible(p, radius) ==
    LET g == grownRect(canvasRect, neededRect(p, radius))
    IN  IF g.expanded
        THEN [expanded |-> TRUE, origin |-> g.origin,
              canvas |-> rebuildCanvasOn([w |-> g.w, h |-> g.h, pix |-> <<>>],
                                         g.origin, strokes, current,
                                         currentMode, mode)]
        ELSE [expanded |-> FALSE, origin |-> canvasOrigin, canvas |-> canvas]

\* ----------------------------------------------------------------- sliders
\* slider.handleInput: <<value, active>> after it ran.  knobX is
\* x + (value-min)/(max-min)*width; the knob is grabbed within 1.5 knob radii.
sliderHandleInput(sl, value, active, mx, my, pressed) ==
    LET per == (100 * (sl.max - sl.min)) \div sl.width
        off == (mx - sl.x) * per - (value - 100 * sl.min)
        onKnob == /\ Abs(my - sl.y) <= 15
                  /\ Abs(off) <= 15 * per
                  /\ off * off + per * per * (my - sl.y) * (my - sl.y) <= 225 * per * per
        nowActive == active \/ onKnob
        t == IF mx - sl.x < 0 THEN 0
             ELSE IF mx - sl.x > sl.width THEN sl.width
             ELSE mx - sl.x
    IN  IF pressed
        THEN IF nowActive THEN <<100 * sl.min + t * per, TRUE>> ELSE <<value, FALSE>>
        ELSE <<value, FALSE>>

\* ------------------------------------------------------------------ export
\* considerStroke of drawingBounds: the stroke's Bounds grown by ceil(Size/2).
considerStroke(s) == Inset(s.Bounds, -CeilHalfOf(s.Size))

\* A plausible slip in consideredStrokes: erased strokes are not skipped.
consideredStrokesWithErased ==
    SelectSeq(strokes, LAMBDA s : Len(s.Points) > 0)
    \o (IF current # <<>> /\ currentMode = mode THEN current ELSE <<>>)

\* The strokes drawingBounds considers: the committed ones not erased, then
\* the in-progress one when its mode is the active mode.
consideredStrokes ==
    SelectSeq(strokes, LAMBDA s : ~s.Erased /\ Len(s.Points) > 0)
    \o (IF current # <<>> /\ currentMode = mode THEN current ELSE <<>>)

RECURSIVE unionOfConsidered(_)
unionOfConsidered(ss) ==
    IF Len(ss) = 1 THEN considerStroke(ss[1])
    ELSE UnionAlways(considerStroke(ss[1]), unionOfConsidered(Tail(ss)))

\* Game.drawingBounds: the running minima and maxima, then the padding of 8.
drawingBounds ==
    IF consideredStrokes = <<>>
    THEN [ok |-> FALSE, rect |-> ZR]
    ELSE LET u == unionOfConsidered(consideredStrokes)
         IN  [ok |-> TRUE,
              rect |-> Rect(u.MinX - 8, u.MinY - 8, u.MaxX + 8, u.MaxY + 8)]

\* ---------------------------------------------------------------- handlers
\* Game.handleStrokeDrawing(mx, my, pressed, size, clr)
handleStrokeDrawing(mx, my, pressed, size, clr) ==
    LET p == worldFromScreen(mx, my)
        ev == ensurePointVisible(p, size)
        canvasPoint == worldToCanvas(ev.origin, p)
        fresh == current = <<>> \/ currentMode # mode
        cur == IF fresh
               THEN expandBounds(newStroke(p, size, clr), p)
               ELSE expandBounds([current[1] EXCEPT !.Points = Append(@, p)], p)
        n == Len(cur.Points)
        prim == IF n >= 2
                THEN drawSegment(ev.origin, cur.Points[n - 1], cur.Points[n], size, clr)
                ELSE drawFilledCircle(canvasPoint, size, clr)
    IN  IF pressed
        THEN /\ canvasOrigin' = ev.origin
             /\ canvas' = [ev.canvas EXCEPT !.pix = Append(@, prim)]
             /\ current' = <<cur>>
             /\ currentMode' = IF fresh THEN mode ELSE currentMode
             /\ strokes' = strokes
             /\ last' = [NoLast EXCEPT !.op = "draw", !.p = p, !.radius = size,
                            !.ensured = TRUE, !.expanded = ev.expanded,
                            !.rebuilds = IF ev.expanded THEN 1 ELSE 0,
                            !.pixAfterRebuild = IF ev.expanded THEN ev.canvas.pix ELSE <<>>,
                            !.curAtRebuild = IF ev.expanded THEN current ELSE <<>>,
                            !.curModeAtRebuild = currentMode, !.cursor = <<mx, my>>]
        ELSE /\ IF current # <<>> /\ currentMode = mode
                THEN strokes' = Append(strokes, current[1]) /\ current' = <<>>
                ELSE strokes' = strokes /\ current' = current
             /\ last' = [NoLast EXCEPT !.op = "draw"]
             /\ UNCHANGED <<canvas, canvasOrigin, currentMode>>

\* A plausible slip in markErased: the loop stops at the first stroke hit.
markErasedFirstOnly(ss, pos, tolerance) ==
    [i \in 1..Len(ss) |->
        IF /\ hit(ss[i], pos, tolerance)
           /\ \A j \in 1..(i - 1) : ~hit(ss[j], pos, tolerance)
        THEN [ss[i] EXCEPT !.Erased = TRUE] ELSE ss[i]]

\* The strokes after the marking loop of handleStrokeErase.
markErased(ss, pos, tolerance) ==
    [i \in 1..Len(ss) |->
        IF hit(ss[i], pos, tolerance) THEN [ss[i] EXCEPT !.Erased = TRUE] ELSE ss[i]]

\* Game.handleStrokeErase(mx, my, pressed); tolerance is eraserSize/2.
handleStrokeErase(mx, my, pressed) ==
    LET pos == worldFromScreen(mx, my)
        tolerance == eraserSize' \div 2
        removed == \E i \in 1..Len(strokes) : hit(strokes[i], pos, tolerance)
        marked == markErased(strokes, pos, tolerance)
        rebuilt == rebuildCanvasOn(canvas, canvasOrigin, marked, current,
                                   currentMode, mode)
    IN  IF pressed /\ removed
        THEN /\ strokes' = marked
             /\ canvas' = rebuilt
             /\ last' = [NoLast EXCEPT !.op = "erase", !.p = pos, !.rebuilds = 1,
                            !.pixAfterRebuild = rebuilt.pix, !.curAtRebuild = current,
                            !.curModeAtRebuild = currentMode, !.cursor = <<mx, my>>,
                            !.marked = Cardinality({i \in 1..Len(strokes) :
                                                       marked[i] # strokes[i]})]
             /\ UNCHANGED <<canvasOrigin, current, currentMode>>
        ELSE /\ last' = [NoLast EXCEPT !.op = "erase", !.p = pos, !.cursor = <<mx, my>>]
             /\ UNCHANGED <<canvas, canvasOrigin, strokes, current, currentMode>>

\* subRect of saveToPath: the crop rectangle against the canvas origin.
subRect ==
    LET bounds == drawingBounds.rect
        cr == canvasRect
    IN  Rect(bounds.MinX - cr.MinX, bounds.MinY - cr.MinY,
             bounds.MaxX - cr.MinX, bounds.MaxY - cr.MinY)

\* Game.saveToPath: what it prints (said), what it returns (ok) and the
\* images it hands to png.Encode, by their sub-rectangle of the canvas
\* (encoded).  mkdirOK and writeOK are the outcomes of os.MkdirAll and of
\* os.Create with png.Encode.
saveToPath(mkdirOK, writeOK) ==
    IF ~mkdirOK
    THEN [ok |-> FALSE, said |-> "Failed to create directory", encoded |-> <<>>]
    ELSE IF ~drawingBounds.ok
    THEN [ok |-> FALSE, said |-> "Nothing to save", encoded |-> <<>>]
    ELSE IF ~writeOK
    THEN [ok |-> FALSE, said |-> "Failed to save", encoded |-> <<>>]
    ELSE [ok |-> TRUE, said |-> "Saved to", encoded |-> <<subRect>>]

\* The rectangles of confirmDialog.handleInput.
confirmYesRect ==
    LET x == Quo(viewW - 400, 2)
        y == Quo(viewH - 160, 2)
    IN  Rect(x + 40, y + 90, x + 140, y + 130)

confirmNoRect ==
    LET x == Quo(viewW - 400, 2)
        y == Quo(viewH - 160, 2)
    IN  Rect(x + 400 - 140, y + 90, x + 400 - 40, y + 130)

\* The rectangles of handleSaveDialogInput.
saveCancelRect ==
    LET x == Quo(viewW - 720, 2)
        y == Quo(viewH - 520, 2)
    IN  Rect(x + 20, y + 520 - 60, x + 120, y + 520 - 20)

saveSaveRect ==
    LET x == Quo(viewW - 720, 2)
        y == Quo(viewH - 520, 2)
    IN  Rect(x + 720 - 180, y + 520 - 60, x + 720 - 20, y + 520 - 20)

\* ------------------------------------------------------------ environment
\* What one tick reads: the cursor, the two mouse buttons, the key just
\* pressed ("" for none) and whether the file system obliges.
In(mx, my, left, right) ==
    [mx |-> mx, my |-> my, left |-> left, right |-> right, key |-> "", io |-> "ok"]

\* How the file system answers an export: it obliges, os.MkdirAll fails, or
\* os.Create or png.Encode fails.
IOOutcomes == {"ok", "mkdir", "write"}

\* The user's repertoire on the main screen.  A behaviour draws its gestures
\* from one repertoire (env), which keeps the reachable states finite:
\*   "grow":  the brush slider's knob, two canvas points (one under the
\*            slider's right end, one left of its left end), a release, and
\*            the two ends of a diagonal pan;
\*   "erase": the two canvas points, releases over canvas and toolbar, and
\*            the three tool buttons;
\*   "ui":    the five buttons, one canvas point, releases over canvas and
\*            toolbar, and the pan;
\*   "resume": the Brush and Stroke Eraser buttons, the two canvas points and
\*            releases over canvas and toolbar;
\*   "export": the pan, the brush slider's knob, the two canvas points, the
\*            releases and the Save button;
\*   "pandraw": the two canvas points, the pan with and without the left
\*            button held, and the releases.
\* The last three are followed as sessions (see Session).
MainInputs(e) ==
    IF e = "grow"
    THEN { In(728, 40, TRUE, FALSE), In(1100, 150, TRUE, FALSE), In(90, 410, TRUE, FALSE),
           In(1100, 150, FALSE, FALSE),
           In(140, 115, FALSE, TRUE), In(1240, 715, FALSE, TRUE) }
    ELSE IF e = "erase"
    THEN { In(60, 40, TRUE, FALSE), In(200, 40, TRUE, FALSE), In(300, 40, TRUE, FALSE),
           In(1100, 150, TRUE, FALSE), In(90, 410, TRUE, FALSE),
           In(1100, 150, FALSE, FALSE), In(728, 40, FALSE, FALSE) }
    ELSE IF e = "resume"
    THEN { In(60, 40, TRUE, FALSE), In(300, 40, TRUE, FALSE),
           In(1100, 150, TRUE, FALSE), In(90, 410, TRUE, FALSE),
           In(1100, 150, FALSE, FALSE), In(728, 40, FALSE, FALSE) }
    ELSE IF e = "export"
    THEN { In(140, 115, FALSE, TRUE), In(1240, 715, FALSE, TRUE),
           In(728, 40, TRUE, FALSE),
           In(1100, 150, TRUE, FALSE), In(90, 410, TRUE, FALSE),
           In(1100, 150, FALSE, FALSE), In(728, 40, FALSE, FALSE),
           In(450, 40, TRUE, FALSE) }
    ELSE IF e = "pandraw"
    THEN { In(1100, 150, TRUE, FALSE), In(90, 410, TRUE, FALSE),
           In(140, 115, FALSE, TRUE), In(1240, 715, FALSE, TRUE),
           In(140, 115, TRUE, TRUE), In(1240, 715, TRUE, TRUE),
           In(1100, 150, FALSE, FALSE), In(728, 40, FALSE, FALSE) }
    ELSE { In(60, 40, TRUE, FALSE), In(200, 40, TRUE, FALSE), In(300, 40, TRUE, FALSE),
           In(450, 40, TRUE, FALSE), In(600, 40, TRUE, FALSE),
           In(1100, 150, TRUE, FALSE),
           In(1100, 150, FALSE, FALSE), In(728, 40, FALSE, FALSE),
           In(140, 115, FALSE, TRUE), In(1240, 715, FALSE, TRUE) }

\* The kinds of gesture a session is made of.
Presses == {In(1100, 150, TRUE, FALSE), In(90, 410, TRUE, FALSE)}
Releases == {In(1100, 150, FALSE, FALSE), In(728, 40, FALSE, FALSE)}
Tools == {In(60, 40, TRUE, FALSE), In(300, 40, TRUE, FALSE)}
Pans == {In(140, 115, FALSE, TRUE), In(1240, 715, FALSE, TRUE)}
PansHeld == {In(140, 115, TRUE, TRUE), In(1240, 715, TRUE, TRUE)}
Knob == {In(728, 40, TRUE, FALSE)}
SaveClick == {In(450, 40, TRUE, FALSE)}

\* The repertoires followed as a session: tick by tick the user picks from
\* one kind of gesture of the repertoire, and from the last kind once the
\* session is over.
\*   "resume": draw and commit a stroke, draw another and leave it over the
\*            toolbar, change tool, hold on the canvas, change tool, draw;
\*   "export": pan, grab the brush knob, drag over the canvas, release,
\*            Save (the save dialog takes over);
\*   "pandraw": start a stroke, pan with the right button, then with both
\*            buttons held, draw on, release.
Sessions == {"resume", "export", "pandraw"}

Session(e) ==
    IF e = "resume"
    THEN <<Presses, Presses, Releases, Presses, Presses, Releases, Tools,
           Presses, Releases, Tools, Presses>>
    ELSE IF e = "export"
    THEN <<Pans, Pans, Knob, Presses, Presses, Releases, SaveClick>>
    ELSE <<Presses, Pans, PansHeld, PansHeld, Presses, Releases>>

\* The gestures the user of repertoire e picks from after t ticks.
Offered(e, t) ==
    IF e \in Sessions
    THEN Session(e)[Min2(t + 1, Len(Session(e)))]
    ELSE MainInputs(e)

\* The pointer travel of one pan gesture of MainInputs, on each axis.
PanStepX == 1240 - 140
PanStepY == 715 - 115

\* The gestures offered while the Clear confirmation is shown.
ConfirmInputs ==
    { In(500, 390, TRUE, FALSE), In(750, 390, TRUE, FALSE),
      In(728, 40, TRUE, FALSE), In(728, 40, FALSE, FALSE) }

\* The gestures offered while the save dialog is shown.
SaveInputs ==
    { In(350, 580, TRUE, FALSE), In(728, 40, FALSE, FALSE),
      [In(728, 40, FALSE, FALSE) EXCEPT !.key = "Escape"] }
    \cup { [In(900, 580, TRUE, FALSE) EXCEPT !.io = io] : io \in IOOutcomes }
    \cup { [In(728, 40, FALSE, FALSE) EXCEPT !.key = "Enter", !.io = io] : io \in IOOutcomes }

\* The environment stays within the bounds of the model.
WithinBounds ==
    /\ Len(strokes) + Len(current) <= MaxStrokes
    /\ \A i \in 1..Len(current) : Len(current[i].Points) <= MaxPoints
    /\ Abs(camera[1]) <= MaxPanSteps * PanStepX
    /\ Abs(camera[2]) <= MaxPanSteps * PanStepY

\* ------------------------------------------------------------------ Update
\* Game.Update with the save dialog visible: handleSaveDialogInput.
UpdateSave(in) ==
    LET justClicked == in.left /\ ~lastMouseBtn
        p == <<in.mx, in.my>>
        res == saveToPath(in.io # "mkdir", in.io # "write")
        clickCancel == justClicked /\ rectContainsPoint(saveCancelRect, p)
        clickSave == justClicked /\ ~clickCancel /\ rectContainsPoint(saveSaveRect, p)
    IN  /\ save
        /\ lastMouseBtn' = in.left
        /\ IF in.key = "Escape" \/ clickCancel
           THEN save' = FALSE /\ last' = [NoLast EXCEPT !.op = "saveDialog", !.cursor = p]
           ELSE IF clickSave \/ in.key = "Enter"
           THEN /\ save' = ~res.ok
                /\ last' = [NoLast EXCEPT !.op = res.said, !.returned = res.ok,
                               !.encoded = res.encoded, !.cursor = p]
           ELSE save' = save /\ last' = [NoLast EXCEPT !.op = "saveDialog", !.cursor = p]
        /\ UNCHANGED <<canvas, canvasOrigin, strokes, current, currentMode, mode,
                       brushSize, eraserSize, sliderActive, confirm, camera,
                       panning, panLast>>

\* Game.Update with the confirmation visible: confirmDialog.handleInput, and
\* the onConfirm closure of confirmClear.
UpdateConfirm(in) ==
    LET justClicked == in.left /\ ~lastMouseBtn
        p == <<in.mx, in.my>>
    IN  /\ ~save
        /\ confirm
        /\ lastMouseBtn' = in.left
        /\ IF justClicked /\ rectContainsPoint(confirmYesRect, p)
           THEN /\ confirm' = FALSE
                /\ canvas' = Fill(canvas)
                /\ strokes' = <<>>
                /\ current' = <<>>
                /\ last' = [NoLast EXCEPT !.op = "clear", !.cursor = p]
           ELSE /\ confirm' = (confirm /\ ~(justClicked /\ rectContainsPoint(confirmNoRect, p)))
                /\ last' = [NoLast EXCEPT !.op = "confirmDialog", !.cursor = p]
                /\ UNCHANGED <<canvas, strokes, current>>
        /\ UNCHANGED <<canvasOrigin, currentMode, mode, brushSize, eraserSize,
                       sliderActive, save, camera, panning, panLast>>

\* The onClick closure of the first button containing the cursor.
onClick(label) ==
    /\ mode' = CASE label = "Brush" -> modeDraw
                 [] label = "Pixel Eraser" -> modePixelErase
                 [] label = "Stroke Eraser" -> modeStrokeErase
                 [] OTHER -> mode
    /\ save' = (label = "Save")
    /\ confirm' = (label = "Clear")
    /\ last' = [NoLast EXCEPT !.op = label]
    /\ UNCHANGED <<canvas, canvasOrigin, strokes, current, currentMode>>

\* A plausible slip in noDialog: the confirmation is not tested.
noDialogButConfirm == ~save

\* The two tests of Game.Update that come before handleMainInput.
noDialog == ~save /\ ~confirm

\* A plausible slip in pannedCamera: the camera moves on the first tick of
\* the right button as well.
pannedCameraOnPress(in) ==
    IF in.right
    THEN <<camera[1] - (in.mx - panLast[1]), camera[2] - (in.my - panLast[2])>>
    ELSE camera

\* The camera after the panning block of handleMainInput.
pannedCamera(in) ==
    IF in.right /\ panning
    THEN <<camera[1] - (in.mx - panLast[1]), camera[2] - (in.my - panLast[2])>>
    ELSE camera

\* Game.Update with no dialog: handleMainInput.
UpdateMain(in) ==
    LET justClicked == in.left /\ ~lastMouseBtn
        nowPanning == in.right
        bs == sliderHandleInput(sliders[1], brushSize, sliderActive[1], in.mx, in.my, in.left)
        es == sliderHandleInput(sliders[2], eraserSize, sliderActive[2], in.mx, in.my, in.left)
        over == {i \in 1..Len(buttons) : buttonContains(buttons[i].rect, in.mx, in.my)}
        first == CHOOSE i \in over : \A j \in over : i <= j
    IN  /\ noDialog
        /\ panning' = nowPanning
        /\ camera' = pannedCamera(in)
        /\ panLast' = IF in.right THEN <<in.mx, in.my>> ELSE panLast
        /\ brushSize' = bs[1]
        /\ eraserSize' = es[1]
        /\ sliderActive' = <<bs[2], es[2]>>
        /\ lastMouseBtn' = in.left
        /\ IF justClicked /\ ~nowPanning /\ over # {}
           THEN onClick(buttons[first].label)
           ELSE /\ UNCHANGED <<mode, save, confirm>>
                /\ IF in.my <= uiHeight
                   THEN /\ last' = [NoLast EXCEPT !.op = "toolbar"]
                        /\ UNCHANGED <<canvas, canvasOrigin, strokes, current, currentMode>>
                   ELSE IF nowPanning
                   THEN /\ last' = [NoLast EXCEPT !.op = "panning"]
                        /\ UNCHANGED <<canvas, canvasOrigin, strokes, current, currentMode>>
                   ELSE IF mode = modeDraw
                   THEN handleStrokeDrawing(in.mx, in.my, in.left, bs[1], White)
                   ELSE IF mode = modePixelErase
                   THEN handleStrokeDrawing(in.mx, in.my, in.left, es[1], Black)
                   ELSE handleStrokeErase(in.mx, in.my, in.left)

\* One more tick of the same user, within the bounds.
Environment ==
    ticks < TickBudget(env) /\ ticks' = ticks + 1 /\ env' = env /\ WithinBounds'

Next ==
    \/ \E in \in SaveInputs : UpdateSave(in) /\ Environment
    \/ \E in \in ConfirmInputs : UpdateConfirm(in) /\ Environment
    \/ \E in \in Offered(env, ticks) : UpdateMain(in) /\ Environment

Spec == Init /\ [][Next]_vars

\* ================================================================== claims
\* Every stroke there is: the committed ones, then the in-progress one.
allStrokes == strokes \o current

\* rect holds the interval [lo200, hi200]/200 on each axis around nothing
\* more than the point p grown by half200/200.
coversInflated(rect, p, half200) ==
    /\ 200 * rect.MinX <= 200 * p[1] - half200
    /\ 200 * p[1] + half200 <= 200 * rect.MaxX
    /\ 200 * rect.MinY <= 200 * p[2] - half200
    /\ 200 * p[2] + half200 <= 200 * rect.MaxY

\* outer contains inner (both as boxes).
rectWithin(inner, outer) ==
    /\ outer.MinX <= inner.MinX /\ inner.MaxX <= outer.MaxX
    /\ outer.MinY <= inner.MinY /\ inner.MaxY <= outer.MaxY

\* The box spanning all the points of a stroke.
spanOf(s) ==
    [MinX |-> CHOOSE v \in {s.Points[i][1] : i \in 1..Len(s.Points)} :
                  \A i \in 1..Len(s.Points) : v <= s.Points[i][1],
     MinY |-> CHOOSE v \in {s.Points[i][2] : i \in 1..Len(s.Points)} :
                  \A i \in 1..Len(s.Points) : v <= s.Points[i][2],
     MaxX |-> CHOOSE v \in {s.Points[i][1] : i \in 1..Len(s.Points)} :
                  \A i \in 1..Len(s.Points) : v >= s.Points[i][1],
     MaxY |-> CHOOSE v \in {s.Points[i][2] : i \in 1..Len(s.Points)} :
                  \A i \in 1..Len(s.Points) : v >= s.Points[i][2]]

\* The world points the cursor can query from the canvas area.
Queries ==
    { worldFromScreen(in.mx, in.my) : in \in {i \in MainInputs(env) : i.my > uiHeight} }

\* ---- C1
\* C1: at the end of every tick in which handleStrokeDrawing ran, the buffer
\* rectangle contains every point of every non-erased stroke (committed or
\* in progress) grown by half that stroke's Size on each axis.
C1_BufferCoversStrokes ==
    last.op = "draw" =>
        \A k \in 1..Len(allStrokes) :
            ~allStrokes[k].Erased =>
                \A i \in 1..Len(allStrokes[k].Points) :
                    coversInflated(canvasRect, allStrokes[k].Points[i], allStrokes[k].Size)

\* ---- C2
\* C2: the buffer rectangle after a step contains the buffer rectangle before
\* it, so a later rectangle contains every earlier one.
C2_GrowthMonotonic == [][rectWithin(canvasRect, canvasRect')]_vars

\* C2 witness: the buffer has grown past both its first left edge and its
\* first right edge, the left one in the latest tick.
C2_Witness ==
    /\ last.expanded
    /\ last.p[1] < 0
    /\ canvasRect.MinX < -(initialCanvasSize \div 2)
    /\ canvasRect.MaxX > initialCanvasSize \div 2

\* ---- C3
\* C3: right after ensurePointVisible(p, r) the buffer rectangle contains the
\* square p +- (ceil(r) + 8) on both axes.
C3_EnsuredPointInside ==
    last.ensured =>
        LET m == CeilOf(last.radius) + 8
        IN  rectWithin([MinX |-> last.p[1] - m, MinY |-> last.p[2] - m,
                        MaxX |-> last.p[1] + m, MaxY |-> last.p[2] + m], canvasRect)

\* C3 witness: a call that had to grow the buffer toward smaller x, which
\* left the new edge 128 beyond what the point needed.
C3_Witness ==
    /\ last.ensured
    /\ last.expanded
    /\ canvasRect.MinX = last.p[1] - (CeilOf(last.radius) + 8) - 128

\* ---- C4
\* C4: the Bounds of every stroke contains every point of its Points, and a
\* single-point stroke has the zero-area box at that point.
C4_BoundsContainPoints ==
    \A k \in 1..Len(allStrokes) :
        LET s == allStrokes[k]
        IN  /\ \A i \in 1..Len(s.Points) :
                  /\ s.Bounds.MinX <= s.Points[i][1] /\ s.Points[i][1] <= s.Bounds.MaxX
                  /\ s.Bounds.MinY <= s.Points[i][2] /\ s.Points[i][2] <= s.Bounds.MaxY
            /\ Len(s.Points) = 1 =>
                  s.Bounds = Rect(s.Points[1][1], s.Points[1][2], s.Points[1][1], s.Points[1][2])

\* ---- C5
\* C5: for a non-erased committed stroke of two or more points, hit is true
\* exactly when some segment is within tolerance + Size/2 of the query point
\* (tolerance being eraserSize/2, as the stroke eraser passes it).
C5_HitIffNearSegment ==
    \A k \in 1..Len(strokes) :
        (~strokes[k].Erased /\ Len(strokes[k].Points) >= 2) =>
            \A q \in Queries :
                hit(strokes[k], q, eraserSize \div 2)
                    = hitSegments(strokes[k], q, eraserSize \div 2)

\* ---- C6
\* C6: the crop rectangle of drawingBounds is the union, over the strokes it
\* considers, of the box spanning all the stroke's points grown by
\* ceil(Size/2), then grown by 8 on every side.
RECURSIVE spanUnion(_)
spanUnion(ss) ==
    IF Len(ss) = 1 THEN Inset(spanOf(ss[1]), -CeilHalfOf(ss[1].Size))
    ELSE UnionAlways(Inset(spanOf(ss[1]), -CeilHalfOf(ss[1].Size)), spanUnion(Tail(ss)))

C6_CropIsUnionOfSpans ==
    drawingBounds.ok =>
        drawingBounds.rect = Inset(spanUnion(consideredStrokes), -8)

\* ---- C7
\* What a replay paints, said by position: the j-th primitive is the i-th
\* segment of the k-th shown stroke, where the shown strokes are the
\* non-erased committed ones in order and then the in-progress one if its
\* mode is the active mode, and (k, i) is the j-th pair in that order.
shownAtRebuild ==
    SelectSeq(strokes, LAMBDA s : ~s.Erased)
    \o (IF last.curAtRebuild # <<>> /\ last.curModeAtRebuild = mode
        THEN last.curAtRebuild ELSE <<>>)

RECURSIVE segmentsBefore(_, _)
segmentsBefore(ss, k) ==
    IF k = 1 THEN 0 ELSE segmentsBefore(ss, k - 1) + (Len(ss[k - 1].Points) - 1)

\* C7: after rebuildCanvas the raster is a cleared background followed by the
\* segments of each non-erased committed stroke, oldest first, followed by
\* those of the in-progress stroke if its mode is the active mode; nothing
\* else, so nothing of an erased stroke.
C7_RebuildReplaysInOrder ==
    last.rebuilds > 0 =>
        LET ss == shownAtRebuild
            pix == last.pixAfterRebuild
        IN  /\ Len(pix) = segmentsBefore(ss, Len(ss) + 1)
            /\ \A k \in 1..Len(ss) : \A i \in 1..(Len(ss[k].Points) - 1) :
                  pix[segmentsBefore(ss, k) + i] =
                      [kind |-> "line",
                       a |-> <<ss[k].Points[i][1] - canvasOrigin[1],
                               ss[k].Points[i][2] - canvasOrigin[2]>>,
                       b |-> <<ss[k].Points[i + 1][1] - canvasOrigin[1],
                               ss[k].Points[i + 1][2] - canvasOrigin[2]>>,
                       size |-> ss[k].Size, clr |-> ss[k].Color]

\* C7 witness: a rebuild that replayed a committed stroke and then the
\* in-progress stroke, a segment of each, with an erased stroke left out.
C7_Witness ==
    /\ last.rebuilds > 0
    /\ Len(shownAtRebuild) >= 2
    /\ \A k \in 1..2 : Len(shownAtRebuild[k].Points) >= 2
    /\ last.curAtRebuild # <<>>

\* ---- C8
\* C8: every non-erased single-point stroke is in the raster as a filled disk
\* of diameter Size at its point, at the end of every tick.
C8_TapStaysPainted ==
    \A k \in 1..Len(strokes) :
        (~strokes[k].Erased /\ Len(strokes[k].Points) = 1) =>
            \E j \in 1..Len(canvas.pix) :
                canvas.pix[j] = drawFilledCircle(
                    worldToCanvas(canvasOrigin, strokes[k].Points[1]),
                    strokes[k].Size, strokes[k].Color)

\* ---- C9
\* later is earlier with points appended, if any.
extends(later, earlier) ==
    /\ later.Size = earlier.Size
    /\ later.Color = earlier.Color
    /\ Len(later.Points) >= Len(earlier.Points)
    /\ SubSeq(later.Points, 1, Len(earlier.Points)) = earlier.Points

\* C9: in every step other than a confirmed Clear, the committed strokes keep
\* their points, and an in-progress stroke either stays in progress (with
\* its points) or is appended to the committed strokes.
C9_NoStrokeDropped ==
    [][last'.op # "clear" =>
          /\ Len(strokes') >= Len(strokes)
          /\ \A k \in 1..Len(strokes) : strokes'[k].Points = strokes[k].Points
          /\ current # <<>> =>
                \/ current' # <<>> /\ extends(current'[1], current[1])
                \/ /\ Len(strokes') = Len(strokes) + 1
                   /\ strokes'[Len(strokes')] = current[1]]_vars

\* ---- C10
\* C10: in the tick where the left button goes from pressed to released
\* while a stroke is in progress, the stroke is appended to the committed
\* strokes and the in-progress slot becomes empty.
C10_ReleaseCommits ==
    [][(lastMouseBtn /\ ~lastMouseBtn' /\ current # <<>>) =>
          (strokes' = Append(strokes, current[1]) /\ current' = <<>>)]_vars

\* ---- C11
\* C11: in every step the committed strokes before the step are a prefix of
\* those after it, entry by entry with the same Points, Size and Color, and
\* an Erased flag only ever goes from false to true.
C11_LogAppendOnly ==
    [][/\ Len(strokes') >= Len(strokes)
       /\ \A k \in 1..Len(strokes) :
             /\ strokes'[k].Points = strokes[k].Points
             /\ strokes'[k].Size = strokes[k].Size
             /\ strokes'[k].Color = strokes[k].Color
             /\ strokes[k].Erased => strokes'[k].Erased]_vars

\* ---- C12
\* The primitive of the segment from the i-th to the next point of stroke s,
\* wherever the origin now is, is somewhere in the raster.
segmentPainted(s, i) ==
    \E j \in 1..Len(canvas.pix) :
        /\ canvas.pix[j].kind = "line"
        /\ canvas.pix[j].a = worldToCanvas(canvasOrigin, s.Points[i])
        /\ canvas.pix[j].b = worldToCanvas(canvasOrigin, s.Points[i + 1])

nothingVisible ==
    /\ \A k \in 1..Len(strokes) : strokes[k].Erased
    /\ ~(current # <<>> /\ currentMode = mode)

\* What saveToPath prints, one message per way out.
ExportSaid ==
    {"Failed to create directory", "Nothing to save", "Failed to save", "Saved to"}

\* C13: drawingBounds returns ok = false exactly when nothing is visible; an
\* export attempted then returns false and encodes no image, "Nothing to
\* save" is said only then, every image that is encoded has a positive width
\* and height, and an export that returns false leaves the strokes, the
\* in-progress stroke, the buffer and the camera as they were.
C13_EmptyCanvasExport ==
    /\ [](drawingBounds.ok = ~nothingVisible)
    /\ [][last'.op \in ExportSaid =>
             /\ nothingVisible => (~last'.returned /\ last'.encoded = <<>>)
             /\ last'.op = "Nothing to save" => nothingVisible
             /\ \A i \in 1..Len(last'.encoded) :
                   Dx(last'.encoded[i]) > 0 /\ Dy(last'.encoded[i]) > 0
             /\ ~last'.returned =>
                   UNCHANGED <<strokes, current, currentMode, mode, canvas,
                               canvasOrigin, camera>>]_vars

\* C13 witness: an export was refused for an empty canvas although a stroke
\* was drawn: every stroke is erased.
C13_Witness ==
    /\ last.op = "Nothing to save"
    /\ ~last.returned
    /\ Len(strokes) > 0

\* ---- C14
\* The condition an export ends in, for an answer of the file system.
exportCondition(io) ==
    IF io = "mkdir" THEN "IOFailure"
    ELSE IF ~drawingBounds.ok THEN "EmptyCanvas"
    ELSE IF io = "write" THEN "IOFailure"
    ELSE "none"

\* C14: with the save dialog open, an export that ends in EmptyCanvas and one
\* that ends in an I/O failure never return the same value from saveToPath.
C14_EmptyCanvasDistinct ==
    save =>
        \A a \in IOOutcomes : \A b \in IOOutcomes :
            (exportCondition(a) = "EmptyCanvas" /\ exportCondition(b) = "IOFailure") =>
                saveToPath(a # "mkdir", a # "write").ok
                    # saveToPath(b # "mkdir", b # "write").ok

\* ---- C15
\* The geometry of hit alone: the query is inside the inflated Bounds and
\* near a segment, whatever the Erased flag says.
touches(s, pos, tolerance) ==
    /\ rectContainsPoint(hitInflated(s, tolerance), pos)
    /\ hitSegments(s, pos, tolerance)

\* C15: hit is false for every erased stroke, and a stroke-erase pass whose
\* position touches erased strokes only leaves the strokes and the raster as
\* they were and rebuilds nothing.
C15_ErasedNeverHit ==
    /\ [](\A k \in 1..Len(strokes) :
             strokes[k].Erased =>
                 \A q \in Queries : ~hit(strokes[k], q, eraserSize \div 2))
    /\ [][(/\ last'.op = "erase"
           /\ \A k \in 1..Len(strokes) :
                 touches(strokes[k], last'.p, eraserSize' \div 2) => strokes[k].Erased)
          => (strokes' = strokes /\ canvas' = canvas /\ last'.rebuilds = 0)]_vars

\* C15 witness: a pass with the button down on an already-erased stroke, and
\* no rebuild.
C15_Witness ==
    /\ last.op = "erase"
    /\ lastMouseBtn
    /\ last.rebuilds = 0
    /\ \E k \in 1..Len(strokes) :
          strokes[k].Erased /\ touches(strokes[k], last.p, eraserSize \div 2)

\* ---- C16
\* C16: a stroke-erase pass with the button down marks exactly the committed
\* strokes that hit says are hit, and rebuilds once, from the strokes as
\* marked, if there is one and not at all if there is none; with the button
\* up it does nothing.
C16_OnePassOneRebuild ==
    [][last'.op = "erase" =>
          LET tol == eraserSize' \div 2
              H == {k \in 1..Len(strokes) : hit(strokes[k], last'.p, tol)}
          IN  IF lastMouseBtn'
              THEN /\ strokes' = [k \in 1..Len(strokes) |->
                                     IF k \in H THEN [strokes[k] EXCEPT !.Erased = TRUE]
                                     ELSE strokes[k]]
                   /\ last'.marked = Cardinality(H)
                   /\ last'.rebuilds = IF H = {} THEN 0 ELSE 1
                   /\ IF H = {} THEN canvas' = canvas
                      ELSE canvas'.pix = rebuildCanvas(canvasOrigin, strokes', current,
                                                       currentMode, mode)
              ELSE strokes' = strokes /\ canvas' = canvas /\ last'.rebuilds = 0]_vars

\* C16 witness: one pass marked two strokes and rebuilt once.
C16_Witness ==
    /\ last.op = "erase"
    /\ last.marked >= 2
    /\ last.rebuilds = 1

\* ---- C17
\* The boxes of the strokes an export considers: all the stroke's points,
\* grown by ceil(Size/2).
contentBoxes ==
    {Inset(spanOf(consideredStrokes[k]), -CeilHalfOf(consideredStrokes[k].Size)) :
        k \in 1..Len(consideredStrokes)}

\* C17: after a successful export, each side of the crop rectangle moved in
\* by the padding 8 lies on the same side of the box of some stroke.
C17_CropTouchesContent ==
    last.op = "Saved to" =>
        LET c == Inset(drawingBounds.rect, 8)
        IN  /\ \E b \in contentBoxes : b.MinX = c.MinX
            /\ \E b \in contentBoxes : b.MinY = c.MinY
            /\ \E b \in contentBoxes : b.MaxX = c.MaxX
            /\ \E b \in contentBoxes : b.MaxY = c.MaxY

\* ---- C18
\* The stroke of the points pts, built as handleStrokeDrawing builds it: the
\* first point by newStroke, each later one appended, expandBounds after each.
RECURSIVE strokeOfPoints(_, _, _)
strokeOfPoints(pts, size, clr) ==
    IF Len(pts) = 1
    THEN expandBounds(newStroke(pts[1], size, clr), pts[1])
    ELSE LET before == strokeOfPoints(SubSeq(pts, 1, Len(pts) - 1), size, clr)
         IN  expandBounds([before EXCEPT !.Points = Append(@, pts[Len(pts)])],
                          pts[Len(pts)])

\* s moved by v.
translated(s, v) ==
    strokeOfPoints([i \in 1..Len(s.Points) |->
                       <<s.Points[i][1] + v[1], s.Points[i][2] + v[2]>>],
                   s.Size, s.Color)

\* The translations tried (the second takes the canvas point (1100,150) to
\* the origin, the first takes every point into negative coordinates), the
\* offsets from a stroke's points at which hit is queried, and the
\* tolerances besides eraserSize/2.
Translations == {<<-6000, -6000>>, <<-1100, -150>>}
ProbeOffsets == {<<0, 0>>, <<15, 0>>, <<-11, 10>>, <<0, -21>>}
Tolerances == {150}

probes(s) ==
    {<<s.Points[i][1] + d[1], s.Points[i][2] + d[2]>> :
        i \in 1..Len(s.Points), d \in ProbeOffsets}

ScreenPoints ==
    {<<in.mx, in.my>> : in \in MainInputs(env)} \cup {<<0, 0>>, <<viewW - 1, viewH - 1>>}

C22_SideBySideGrowth ==
    [][last'.ensured =>
          LET m == CeilOf(last'.radius) + 8
              p == last'.p
              r == canvasRect
              q == canvasRect'
              moved == q # r
          IN  /\ q.MinX = IF p[1] - m < r.MinX THEN p[1] - m - 128 ELSE r.MinX
              /\ q.MaxX = IF p[1] + m > r.MaxX THEN p[1] + m + 128 ELSE r.MaxX
              /\ q.MinY = IF p[2] - m < r.MinY THEN p[2] - m - 128 ELSE r.MinY
              /\ q.MaxY = IF p[2] + m > r.MaxY THEN p[2] + m + 128 ELSE r.MaxY
              /\ last'.expanded = moved
              /\ last'.rebuilds = IF moved THEN 1 ELSE 0
              /\ SubSeq(canvas'.pix, 1, Len(canvas'.pix) - 1) =
                    IF moved THEN last'.pixAfterRebuild ELSE canvas.pix
              /\ ~moved => canvasOrigin' = canvasOrigin]_vars

\* C22 witness: a call that moved the left side and left top and bottom
\* where NewGame put them.
C22_Witness ==
    /\ last.ensured
    /\ last.expanded
    /\ canvasRect.MinX < -(initialCanvasSize \div 2)
    /\ canvasRect.MinY = -(initialCanvasSize \div 2)
    /\ canvasRect.MaxY = initialCanvasSize \div 2

\* ---- C23
\* C23: at the end of every tick the raster is what a replay of the stroke
\* log paints on a cleared background: the non-erased committed strokes in
\* order, then the in-progress stroke.
C23_RasterIsReplay ==
    canvas.pix = renderAll(canvasOrigin, strokes)
                 \o (IF current # <<>> THEN render(canvasOrigin, current[1]) ELSE <<>>)

\* ---- C24
\* C24: every image an export encodes is a sub-rectangle inside the buffer,
\* [0, width) x [0, height).
C24_CropInsideBuffer ==
    last.op = "Saved to" =>
        \A i \in 1..Len(last.encoded) :
            /\ 0 <= last.encoded[i].MinX /\ last.encoded[i].MaxX <= canvas.w
            /\ 0 <= last.encoded[i].MinY /\ last.encoded[i].MaxY <= canvas.h

\* ---- C25
\* The tick now ending pressed the left button anew inside the Yes button of
\* the Clear confirmation.
confirmPressed ==
    /\ ~save
    /\ confirm
    /\ ~lastMouseBtn
    /\ lastMouseBtn'
    /\ rectContainsPoint(confirmYesRect, last'.cursor)

\* C25: a tick that starts with the save dialog or the Clear confirmation
\* visible leaves camera, panning, mode, sizes and buffer rectangle as they
\* were; it leaves the strokes, the in-progress stroke and the raster as
\* they were too, unless it is a press on Yes in the confirmation, which
\* empties the strokes and the in-progress stroke.
C25_DialogsBlockInput ==
    [][(save \/ confirm) =>
          /\ UNCHANGED <<camera, panning, panLast, mode, brushSize, eraserSize,
                         sliderActive, currentMode>>
          /\ canvasRect' = canvasRect
          /\ IF confirmPressed
             THEN strokes' = <<>> /\ current' = <<>>
             ELSE UNCHANGED <<strokes, current, canvas>>]_vars

\* C25 witness: a tick with the confirmation visible and the left button
\* down somewhere else than its buttons, strokes drawn before, and the
\* confirmation still there.
C25_Witness ==
    /\ last.op = "confirmDialog"
    /\ lastMouseBtn
    /\ confirm
    /\ strokes # <<>>

\* ---- C26
\* The tolerances tried besides eraserSize/2: 1.5 and the largest the eraser
\* slider gives, 40.
TapTolerances == {150, 4000}

\* C26: a committed stroke of one point is not erased, and hit is false for
\* it at every query point, the point itself included, and every tolerance.
C26_TapNeverHit ==
    \A k \in 1..Len(strokes) :
        Len(strokes[k].Points) = 1 =>
            /\ ~strokes[k].Erased
            /\ \A tol \in TapTolerances \cup {eraserSize \div 2} :
               \A q \in Queries \cup {strokes[k].Points[1]} :
                   ~hit(strokes[k], q, tol)

\* C26 witness: a stroke-erase pass with the button down exactly on a
\* committed stroke of one point.
C26_Witness ==
    /\ last.op = "erase"
    /\ lastMouseBtn
    /\ \E k \in 1..Len(strokes) :
          Len(strokes[k].Points) = 1 /\ strokes[k].Points[1] = last.p

====
